---- MODULE Spec2Model ----
(***************************************************************************)
(* Model of the coverage-first mindmap builder                             *)
(* (backend/stages/stage5_mindmap.py, class CoverageMindmapBuilder).       *)
(*                                                                         *)
(* Texts are abstracted to what the builder reads from them: the number of *)
(* words, the set of vocabulary terms (the n-grams the TF-IDF vectorizer   *)
(* extracts, which are also the words _tokenize sees) and the set of       *)
(* participant names that occur in the text as a substring.                *)
(* Identifiers "theme-%03d", "claim-%03d", "outcome-%03d" are modelled by  *)
(* their number; "theme-more" is THEME_MORE.  Scores and confidences are   *)
(* scaled to integers: score2 = 2 * score, confidence in hundredths,       *)
(* cosine similarities in hundredths.                                      *)
(***************************************************************************)
EXTENDS Integers, Sequences, FiniteSets, TLC

VARIABLES
    participants,        \* self.participants: the roster, in order
    sentences,           \* narrative / chapter sentences, in extraction order
    collective_summary,  \* raw action item / achievement / blocker records
    timeline_entries,    \* self.timeline_entries
    max_visible_themes,  \* self.max_visible_themes
    claims,              \* self.claims
    outcomes,            \* self.outcomes
    themes,              \* self.themes
    vectorizer,          \* self.vectorizer: fitted vocabulary, or none
    sims,                \* cosine similarities computed by the last attach
    memo,                \* what KMeans and cosine_similarity returned in the
                         \* first build(), by input: both are functions of it
    pre_themes,          \* self.themes as _rebalance_theme_visibility found it
    graph,               \* the node list returned by the last build()
    first_graph,         \* the node list returned by the first build()
    fresh,               \* TRUE iff the running build() is the builder's first
    builds,              \* number of build() calls started
    pc                   \* position inside build()

vars == <<participants, sentences, collective_summary, timeline_entries,
          max_visible_themes, claims, outcomes, themes, vectorizer, sims,
          memo, pre_themes, graph, first_graph, fresh, builds, pc>>

inputs == <<participants, sentences, collective_summary, timeline_entries,
            max_visible_themes>>

-----------------------------------------------------------------------------
(* Bounds of the model *)

MaxDetail == 2   \* sentences drawn freely from SentencePool
MaxPad == 10     \* identical plain narrative sentences in a long narrative
MaxRaw == 1      \* raw outcome records in collective_summary
MaxThemeCap == 2 \* largest max_visible_themes tried
MaxBuilds == 2   \* build() calls in the repeated-invocation specification
MaxEntries == 2  \* timeline entries in the time-hint specification

-----------------------------------------------------------------------------
(* Program constants *)

NO_THEME == -1         \* theme_id = None
THEME_MORE == 0        \* theme_id = "theme-more"
NO_TIME == -1          \* time_hint_ms = None
MIN_WORDS == 4         \* a claim sentence has at least 4 words
CLUSTER_FLOOR == 4     \* below 4 claims everything is one cluster
CLAIMS_PER_CLUSTER == 4 \* n_claims // 4
EXTRA_CLUSTERS == 2    \* max_visible_themes + 2
MIN_CLUSTERS == 2      \* max(2, ...)
MAX_DF_TENTHS == 9     \* TfidfVectorizer(max_df=0.9)
MIN_DF == 1            \* TfidfVectorizer(min_df=1)
SIM_THRESHOLD == 12    \* best_score < 0.12
OUTCOME_WEIGHT2 == 3   \* theme.score += 1.5
CONF_NAMED == 75
CONF_PLAIN == 70
CONF_FILLER == 55
CONF_EVIDENCE == 85
CONF_NO_EVIDENCE == 75
MIN_HINT_SCORE == 2    \* best_score >= 2
SPEAKER_WEIGHT == 2    \* score += 2 * speaker_overlap
KEY_CLAIMS == 3        \* theme.claim_indices[:3]
KEY_OUTCOMES == 2      \* [...][:2]

Names == {"Ana", "Bob"}
NoName == ""
NoChapter == <<>>

-----------------------------------------------------------------------------
(* Generic helpers *)

Range(s) == {s[i] : i \in 1..Len(s)}

Min2(a, b) == IF a < b THEN a ELSE b
Max2(a, b) == IF a > b THEN a ELSE b

RECURSIVE SelectIdx(_, _, _)
\* indices i >= from of s, ascending, for which Keep[i]
SelectIdx(n, Keep, from) ==
    IF from > n THEN <<>>
    ELSE IF Keep[from] THEN <<from>> \o SelectIdx(n, Keep, from + 1)
         ELSE SelectIdx(n, Keep, from + 1)

RECURSIVE Flatten(_)
Flatten(ss) == IF ss = <<>> THEN <<>> ELSE Head(ss) \o Flatten(Tail(ss))

Text(w, ts, ns) == [words |-> w, terms |-> ts, names |-> ns]

\* the n-grams of a text: its own terms and the names written in it
Features(text) == text.terms \cup text.names

\* _clean(x) is empty
Blank(text) == text.words = 0

-----------------------------------------------------------------------------
(* Inputs *)

\* str.lower() on the names and speaker labels that occur in the inputs
Lower(s) ==
    CASE s = "Ana" -> "ana"
      [] s = "ANA" -> "ana"
      [] s = "Bob" -> "bob"
      [] OTHER -> s

PlainText == Text(6, {"budget"}, {})

\* one sentence of the narrative (chapter_id = NoChapter, source "Executive
\* Narrative") or of a chapter summary, as _split_sentences cuts it
SentencePool ==
    { [text |-> Text(5, {"roadmap"}, {}), chapter_id |-> NoChapter,
       source |-> "Executive Narrative"],
      [text |-> Text(7, {"roadmap"}, {"Ana"}), chapter_id |-> NoChapter,
       source |-> "Executive Narrative"],
      [text |-> Text(3, {"agreed"}, {"Bob"}), chapter_id |-> NoChapter,
       source |-> "Executive Narrative"],
      [text |-> Text(6, {"hiring"}, {}), chapter_id |-> <<"c", "-", "1">>,
       source |-> "Chapter"],
      [text |-> Text(8, {"hiring"}, {"Bob"}), chapter_id |-> <<"C", " ", "1">>,
       source |-> "Chapter"] }

PadSentence ==
    [text |-> PlainText, chapter_id |-> NoChapter, source |-> "Executive Narrative"]

\* build() reads the narrative first and the chapters after it
NarrativeFirst(ss) ==
    \A i, j \in 1..Len(ss) :
        (i < j /\ ss[j].chapter_id = NoChapter) => ss[i].chapter_id = NoChapter

DetailSeqs ==
    {ss \in UNION {[1..n -> SentencePool] : n \in 0..MaxDetail} : NarrativeFirst(ss)}

RECURSIVE Copies(_, _)
Copies(n, x) == IF n = 0 THEN <<>> ELSE <<x>> \o Copies(n - 1, x)

\* short meetings: a few free sentences; long meetings: MaxPad plain narrative
\* sentences and at most one free sentence
SentenceInputs ==
    DetailSeqs \cup {Copies(MaxPad, PadSentence) \o d : d \in {x \in DetailSeqs : Len(x) <= 1}}

\* participant lists without blank entries and without repetitions
Rosters == {<<>>, <<"Bob">>, <<"Ana", "Bob">>, <<"Bob", "Ana">>}

NoTitle == Text(0, {}, {})
ShipTitle == Text(3, {"roadmap"}, {})

\* raw records of collective_summary; kind names the list the record is in
RawPool ==
    { [kind |-> "action", title |-> ShipTitle, owner |-> "Ana", assignee |-> "Bob",
       members |-> <<>>, evidence |-> FALSE, timestamp_ms |-> NO_TIME],
      [kind |-> "action", title |-> NoTitle, owner |-> "Bob", assignee |-> NoName,
       members |-> <<>>, evidence |-> FALSE, timestamp_ms |-> NO_TIME],
      [kind |-> "action", title |-> Text(2, {"audit"}, {}), owner |-> NoName,
       assignee |-> "Bob", members |-> <<>>, evidence |-> TRUE, timestamp_ms |-> 5000],
      [kind |-> "achievement", title |-> Text(4, {"launch"}, {}), owner |-> NoName,
       assignee |-> NoName, members |-> <<"Bob">>, evidence |-> TRUE,
       timestamp_ms |-> NO_TIME],
      [kind |-> "achievement", title |-> NoTitle, owner |-> NoName,
       assignee |-> NoName, members |-> <<"Ana">>, evidence |-> FALSE,
       timestamp_ms |-> NO_TIME],
      [kind |-> "blocker", title |-> Text(3, {"hiring"}, {"Ana"}), owner |-> "Ana",
       assignee |-> NoName, members |-> <<"Ana", NoName>>, evidence |-> FALSE,
       timestamp_ms |-> NO_TIME] }

KindRank(k) == CASE k = "action" -> 1 [] k = "achievement" -> 2 [] OTHER -> 3

\* action_items are read first, then achievements, then blockers
RawInputs ==
    {rs \in UNION {[1..n -> RawPool] : n \in 0..MaxRaw} :
        \A i, j \in 1..Len(rs) : i < j => KindRank(rs[i].kind) <= KindRank(rs[j].kind)}

\* self.timeline_entries as __init__ builds them: token set, speakers, timestamp
TimelineInputs ==
    { << [timestamp_ms |-> 1000, tokens |-> {"roadmap"}, speakers |-> <<"ANA">>],
         [timestamp_ms |-> NO_TIME, tokens |-> {"hiring", "bob"}, speakers |-> <<>>],
         [timestamp_ms |-> 3000, tokens |-> {"hiring", "bob"}, speakers |-> <<"Bob">>] >> }

ThemeCaps == 1..MaxThemeCap

-----------------------------------------------------------------------------
(* Claims: _extract_claims *)

\* _tokenize: the lower-cased words of a text
Tokenize(text) == text.terms \cup {Lower(n) : n \in text.names}

\* faulty variant: every name written in the text is reported, on the roster or not
DetectParticipantsAnyName(text) == SelectSeq(<<"Ana", "Bob">>, LAMBDA p : p \in text.names)

\* the roster names written in the text, in roster order
DetectParticipants(text) == SelectSeq(participants, LAMBDA p : p \in text.names)

RECURSIVE ScanTimelineLastWins(_, _, _, _, _)
\* faulty variant: an entry that only equals the best score replaces the best
ScanTimelineLastWins(entries, tokens, participant_set, i, best) ==
    IF i > Len(entries) THEN best
    ELSE LET entry == entries[i]
             overlap == Cardinality(tokens \cap entry.tokens)
             speaker_overlap ==
                 Cardinality(participant_set \cap {Lower(x) : x \in Range(entry.speakers)})
             score == IF participant_set # {} /\ entry.speakers # <<>>
                      THEN overlap + SPEAKER_WEIGHT * speaker_overlap
                      ELSE overlap
             next == IF score >= best[1] /\ score > 0 /\ entry.timestamp_ms # NO_TIME
                     THEN <<score, entry.timestamp_ms>>
                     ELSE best
         IN  ScanTimelineLastWins(entries, tokens, participant_set, i + 1, next)

RECURSIVE ScanTimeline(_, _, _, _, _)
\* the loop of _match_time_hint over entries[i..]; returns <<best_score, best_time>>
ScanTimeline(entries, tokens, participant_set, i, best) ==
    IF i > Len(entries) THEN best
    ELSE LET entry == entries[i]
             overlap == Cardinality(tokens \cap entry.tokens)
             speaker_overlap ==
                 Cardinality(participant_set \cap {Lower(x) : x \in Range(entry.speakers)})
             score == IF participant_set # {} /\ entry.speakers # <<>>
                      THEN overlap + SPEAKER_WEIGHT * speaker_overlap
                      ELSE overlap
             next == IF score > best[1] /\ entry.timestamp_ms # NO_TIME
                     THEN <<score, entry.timestamp_ms>>
                     ELSE best
         IN  ScanTimeline(entries, tokens, participant_set, i + 1, next)

MatchTimeHint(text, parts) ==
    IF timeline_entries = <<>> THEN NO_TIME
    ELSE LET best == ScanTimeline(timeline_entries, Tokenize(text),
                                  {Lower(p) : p \in Range(parts)}, 1, <<0, NO_TIME>>)
         IN  IF best[1] >= MIN_HINT_SCORE THEN best[2] ELSE NO_TIME

NewClaim(id, sentence) ==
    LET parts == DetectParticipants(sentence.text)
    IN  [id |-> id,
         text |-> sentence.text,
         source |-> sentence.source,
         chapter_id |-> sentence.chapter_id,
         participants |-> parts,
         time_hint_ms |-> MatchTimeHint(sentence.text, parts),
         confidence |-> IF parts # <<>> THEN CONF_NAMED ELSE CONF_PLAIN,
         theme_id |-> NO_THEME]

RECURSIVE AddClaims(_, _, _)
\* add_claim over the sentences ss; claim_id is the running counter
AddClaims(ss, acc, claim_id) ==
    IF ss = <<>> THEN acc
    ELSE IF Head(ss).text.words < MIN_WORDS
         THEN AddClaims(Tail(ss), acc, claim_id)
         ELSE AddClaims(Tail(ss), Append(acc, NewClaim(claim_id, Head(ss))),
                        claim_id + 1)

ExtractedClaims == AddClaims(sentences, claims, 1)

ExtractClaims ==
    /\ pc = "extract_claims"
    /\ claims' = ExtractedClaims
    /\ pc' = "extract_outcomes"
    /\ UNCHANGED <<inputs, outcomes, themes, vectorizer, sims, memo, pre_themes, graph,
                   first_graph, fresh, builds>>

-----------------------------------------------------------------------------
(* Outcomes: _extract_outcomes *)

NonBlank(names) == SelectSeq(names, LAMBDA n : n # NoName)

\* the arguments the three loops hand to add_outcome
RawOwner(r) ==
    CASE r.kind = "action" -> IF r.owner # NoName THEN r.owner ELSE r.assignee
      [] r.kind = "achievement" -> NoName
      [] OTHER -> r.owner

RawPeople(r) ==
    CASE r.kind = "action" ->
             IF r.assignee # NoName THEN <<r.owner, r.assignee>> ELSE <<r.owner>>
      [] OTHER -> r.members

RawTimeHint(r) ==
    IF r.kind = "action" \/ r.evidence THEN r.timestamp_ms ELSE NO_TIME

NewOutcome(id, r) ==
    [id |-> id,
     type |-> r.kind,
     title |-> r.title,
     owner |-> RawOwner(r),
     people |-> NonBlank(RawPeople(r)),
     evidence |-> r.evidence,
     time_hint_ms |-> RawTimeHint(r),
     confidence |-> IF r.evidence THEN CONF_EVIDENCE ELSE CONF_NO_EVIDENCE,
     theme_id |-> NO_THEME]

RECURSIVE AddOutcomesUnfiltered(_, _, _)
\* faulty variant: a record with an empty title is emitted like any other
AddOutcomesUnfiltered(rs, acc, outcome_id) ==
    IF rs = <<>> THEN acc
    ELSE AddOutcomesUnfiltered(Tail(rs), Append(acc, NewOutcome(outcome_id, Head(rs))),
                               outcome_id + 1)

RECURSIVE AddOutcomes(_, _, _)
\* add_outcome over the raw records rs; outcome_id is the running counter
AddOutcomes(rs, acc, outcome_id) ==
    IF rs = <<>> THEN acc
    ELSE IF Blank(Head(rs).title)
         THEN AddOutcomes(Tail(rs), acc, outcome_id)
         ELSE AddOutcomes(Tail(rs), Append(acc, NewOutcome(outcome_id, Head(rs))),
                          outcome_id + 1)

ExtractedOutcomes == AddOutcomes(collective_summary, outcomes, 1)

ExtractOutcomes ==
    /\ pc = "extract_outcomes"
    /\ outcomes' = ExtractedOutcomes
    /\ pc' = "ensure_participation"
    /\ UNCHANGED <<inputs, claims, themes, vectorizer, sims, memo, pre_themes, graph,
                   first_graph, fresh, builds>>

-----------------------------------------------------------------------------
(* Coverage guarantor: _ensure_participation_claims *)

\* faulty variant: the people of the outcomes are not counted as mentioned
MentionedByClaims == UNION {Range(claims[i].participants) : i \in 1..Len(claims)}

Mentioned ==
    UNION {Range(claims[i].participants) : i \in 1..Len(claims)}
      \cup UNION {Range(outcomes[i].people) : i \in 1..Len(outcomes)}

FillerText(p) == Text(13, {"attended"}, {p})

Filler(id, p) ==
    [id |-> id,
     text |-> FillerText(p),
     source |-> "Attendance",
     chapter_id |-> NoChapter,
     participants |-> <<p>>,
     time_hint_ms |-> NO_TIME,
     confidence |-> CONF_FILLER,
     theme_id |-> NO_THEME]

Missing == SelectSeq(participants, LAMBDA p : p \notin Mentioned)

RECURSIVE AddFillers(_, _)
AddFillers(missing, acc) ==
    IF missing = <<>> THEN acc
    ELSE AddFillers(Tail(missing), Append(acc, Filler(Len(acc) + 1, Head(missing))))

WithParticipationClaims == AddFillers(Missing, claims)

EnsureParticipationClaims ==
    /\ pc = "ensure_participation"
    /\ claims' = WithParticipationClaims
    /\ pc' = "cluster"
    /\ UNCHANGED <<inputs, outcomes, themes, vectorizer, sims, memo, pre_themes, graph,
                   first_graph, fresh, builds>>

-----------------------------------------------------------------------------
(* Theme clusterer: _cluster_claims_into_themes *)

NoVectorizer == [state |-> "none", vocabulary |-> {}]

\* number of documents among cs that contain feature f
DocFreq(cs, f) == Cardinality({i \in 1..Len(cs) : f \in Features(cs[i].text)})

AllFeatures(cs) == UNION {Features(cs[i].text) : i \in 1..Len(cs)}

\* CountVectorizer._limit_features with min_df = 1, max_df = 0.9
KeptFeatures(cs) ==
    {f \in AllFeatures(cs) :
        /\ DocFreq(cs, f) >= MIN_DF
        /\ 10 * DocFreq(cs, f) <= MAX_DF_TENTHS * Len(cs)}

\* TfidfVectorizer.fit_transform raises ValueError: empty vocabulary,
\* max_df corresponding to fewer documents than min_df, or no term left
FitRaises(cs) ==
    \/ AllFeatures(cs) = {}
    \/ MAX_DF_TENTHS * Len(cs) < 10 * MIN_DF
    \/ KeptFeatures(cs) = {}

\* the non-zero columns of row i of tfidf_matrix
Row(cs, vocabulary, i) == Features(cs[i].text) \cap vocabulary

\* n_clusters as computed for n_claims >= 4
ClusterCount(n_claims, n_features) ==
    LET a == Min2(max_visible_themes + EXTRA_CLUSTERS,
                  Max2(MIN_CLUSTERS, n_claims \div CLAIMS_PER_CLUSTER))
        b == Min2(a, n_claims)
        c == IF n_features < b THEN Max2(1, n_features) ELSE b
    IN  IF c = 0 THEN 1 ELSE c

\* KMeans(n_clusters=k) rejects k < 1
KMeansRaises(k) == k < 1

\* KMeans(random_state=42).fit_predict: each row goes to its nearest centre,
\* so equal rows get equal labels; any such labelling may come out
Labelings(cs, vocabulary, k) ==
    LET rows == {Row(cs, vocabulary, i) : i \in 1..Len(cs)}
    IN  {[i \in 1..Len(cs) |-> byRow[Row(cs, vocabulary, i)]] :
            byRow \in [rows -> 0..(k - 1)]}

MaxLabel(labels) == CHOOSE m \in Range(labels) : \A x \in Range(labels) : x <= m

ChaptersOf(cs, idxs) ==
    {cs[idxs[j]].chapter_id : j \in 1..Len(idxs)} \ {NoChapter}

ClusterTheme(cs, vocabulary, labels, cluster_idx) ==
    LET claim_indices ==
            SelectIdx(Len(cs), [i \in 1..Len(cs) |-> labels[i] = cluster_idx], 1)
        keywords == UNION {Row(cs, vocabulary, claim_indices[j]) :
                              j \in 1..Len(claim_indices)}
    IN  [id |-> cluster_idx + 1,
         label |-> IF keywords # {} THEN "Keywords" ELSE "Theme N",
         claim_indices |-> claim_indices,
         outcome_ids |-> <<>>,
         chapters |-> ChaptersOf(cs, claim_indices),
         score2 |-> 2 * Len(claim_indices)]

RECURSIVE ThemeMap(_, _, _, _)
\* theme_map.values(): the themes of the non-empty clusters from cluster_idx on
ThemeMap(cs, vocabulary, labels, cluster_idx) ==
    IF cluster_idx > MaxLabel(labels) THEN <<>>
    ELSE LET t == ClusterTheme(cs, vocabulary, labels, cluster_idx)
             rest == ThemeMap(cs, vocabulary, labels, cluster_idx + 1)
         IN  IF t.claim_indices = <<>> THEN rest ELSE <<t>> \o rest

RECURSIVE InsertByScore(_, _)
\* t put behind every theme of the sorted list ts that scores at least as much
InsertByScore(ts, t) ==
    IF ts = <<>> THEN <<t>>
    ELSE IF Head(ts).score2 >= t.score2
         THEN <<Head(ts)>> \o InsertByScore(Tail(ts), t)
         ELSE <<t>> \o ts

\* faulty variant: the themes stay in the order they are listed in
ListedOrder(ts, acc) == ts

RECURSIVE SortByScore(_, _)
\* sorted(ts, key=score, reverse=True): stable, highest score first
SortByScore(ts, acc) ==
    IF ts = <<>> THEN acc ELSE SortByScore(Tail(ts), InsertByScore(acc, Head(ts)))

\* faulty variant: the default theme is numbered and labelled like a cluster
KeyTopicsAsCluster(claim_indices) ==
    [id |-> Len(claim_indices) + 2, label |-> "Theme N", claim_indices |-> claim_indices,
     outcome_ids |-> <<>>, chapters |-> {}, score2 |-> 0]

KeyTopics(claim_indices) ==
    [id |-> 1, label |-> "Key Topics", claim_indices |-> claim_indices,
     outcome_ids |-> <<>>, chapters |-> {}, score2 |-> 0]

\* faulty variant: no cluster label is found among the themes, so that the
\* claims' theme pointers stay unset
ThemeIdOfLabelUnset(ts, label) == NO_THEME

ThemeIdOfLabel(ts, label) ==
    IF \E j \in 1..Len(ts) : ts[j].id = label + 1 THEN label + 1 ELSE NO_THEME

\* the themes and the claims after clustering with the given labels
ClusteredThemes(cs, vocabulary, labels) ==
    LET sorted == SortByScore(ThemeMap(cs, vocabulary, labels, 0), <<>>)
    IN  IF sorted = <<>>
        THEN <<KeyTopics([i \in 1..Len(cs) |-> i])>>
        ELSE sorted

ClusteredClaims(cs, vocabulary, labels) ==
    LET tm == ThemeMap(cs, vocabulary, labels, 0)
    IN  [i \in 1..Len(cs) |->
            IF tm = <<>> THEN [cs[i] EXCEPT !.theme_id = 1]
            ELSE IF ThemeIdOfLabel(tm, labels[i]) = NO_THEME THEN cs[i]
                 ELSE [cs[i] EXCEPT !.theme_id = labels[i] + 1]]

ClaimTexts(cs) == [i \in 1..Len(cs) |-> cs[i].text]

\* a seeded library call repeated on the input of the first build() returns
\* what it returned then
Remember(key, val) == [known |-> TRUE, key |-> key, val |-> val]

NothingRemembered == [known |-> FALSE, key |-> <<>>, val |-> <<>>]

SameAsBefore(m, key, val) == (m.known /\ m.key = key) => m.val = val

\* an exception leaves _cluster_claims_into_themes, and so build()
ClusteringRaises(cs) ==
    IF FitRaises(cs) THEN TRUE
    ELSE IF Len(cs) < CLUSTER_FLOOR THEN FALSE
    ELSE KMeansRaises(ClusterCount(Len(cs), Cardinality(KeptFeatures(cs))))

ClusterNoClaims ==
    /\ pc = "cluster"
    /\ claims = <<>>
    /\ themes' = <<KeyTopics(<<>>)>>
    /\ pc' = "attach"
    /\ UNCHANGED <<inputs, claims, outcomes, vectorizer, sims, memo, pre_themes, graph,
                   first_graph, fresh, builds>>

ClusterRaises ==
    /\ pc = "cluster"
    /\ claims # <<>>
    /\ ClusteringRaises(claims)
    /\ vectorizer' = [state |-> "unfitted", vocabulary |-> {}]
    /\ pc' = "raised"
    /\ UNCHANGED <<inputs, claims, outcomes, themes, sims, memo, pre_themes, graph,
                   first_graph, fresh, builds>>

ClusterClaims ==
    /\ pc = "cluster"
    /\ claims # <<>>
    /\ ~ClusteringRaises(claims)
    /\ LET vocabulary == KeptFeatures(claims)
           n_claims == Len(claims)
           n_clusters == IF n_claims < CLUSTER_FLOOR THEN 1
                         ELSE ClusterCount(n_claims, Cardinality(vocabulary))
       IN  /\ \E labels \in Labelings(claims, vocabulary, n_clusters) :
                 /\ SameAsBefore(memo.labels, ClaimTexts(claims), labels)
                 /\ themes' = ClusteredThemes(claims, vocabulary, labels)
                 /\ claims' = ClusteredClaims(claims, vocabulary, labels)
                 /\ memo' = IF builds = 1
                            THEN [memo EXCEPT !.labels = Remember(ClaimTexts(claims), labels)]
                            ELSE memo
           /\ vectorizer' = [state |-> "fitted", vocabulary |-> vocabulary]
    /\ pc' = "attach"
    /\ UNCHANGED <<inputs, outcomes, sims, pre_themes, graph, first_graph, fresh,
                   builds>>

ClusterClaimsIntoThemes == ClusterNoClaims \/ ClusterRaises \/ ClusterClaims

-----------------------------------------------------------------------------
(* Outcome attacher: _attach_outcomes_to_themes *)

\* the vocabulary terms of a theme's aggregate text (its claims' texts)
ThemeFeatures(cs, vocabulary, theme) ==
    UNION {Row(cs, vocabulary, theme.claim_indices[j]) :
              j \in 1..Len(theme.claim_indices)}

\* cosine_similarity of an outcome title and a theme text, in hundredths: zero
\* when they share no vocabulary term, else some positive value, weak or strong
SimilarityValues(cs, vocabulary, theme, outcome) ==
    IF Features(outcome.title) \cap ThemeFeatures(cs, vocabulary, theme) = {}
    THEN {0}
    ELSE {5, 50}

SimilarityMatrices(cs, vocabulary, ts, os) ==
    {m \in [1..Len(os) -> [1..Len(ts) -> {0, 5, 50}]] :
        \A o \in 1..Len(os) : \A j \in 1..Len(ts) :
            m[o][j] \in SimilarityValues(cs, vocabulary, ts[j], os[o])}

\* np.argmax: the first index of the largest value
ArgMax(row) ==
    CHOOSE j \in DOMAIN row :
        /\ \A x \in DOMAIN row : row[x] <= row[j]
        /\ \A x \in DOMAIN row : x < j => row[x] < row[j]

ParticipantMentions(cs, theme, outcome) ==
    LET overlap(claim_idx) ==
            Cardinality(Range(outcome.people) \cap Range(cs[claim_idx].participants))
        sum[j \in 0..Len(theme.claim_indices)] ==
            IF j = 0 THEN 0 ELSE sum[j - 1] + overlap(theme.claim_indices[j])
    IN  sum[Len(theme.claim_indices)]

\* faulty variant: among themes of equal count the first one is chosen
BestParticipantIdxFirst(cs, ts, outcome) ==
    CHOOSE j \in 1..Len(ts) :
        \A x \in 1..Len(ts) :
            LET mj == ParticipantMentions(cs, ts[j], outcome)
                mx == ParticipantMentions(cs, ts[x], outcome)
            IN  mx < mj \/ (mx = mj /\ x >= j)

\* max(participant_scores)[1]: largest count, and among equals the largest index
BestParticipantIdx(cs, ts, outcome) ==
    CHOOSE j \in 1..Len(ts) :
        \A x \in 1..Len(ts) :
            LET mj == ParticipantMentions(cs, ts[j], outcome)
                mx == ParticipantMentions(cs, ts[x], outcome)
            IN  mx < mj \/ (mx = mj /\ x <= j)

\* faulty variant: a weak similarity always gives way to the participant
\* scores, even when no theme has an overlap
AssignedThemeIdxByPeople(cs, ts, outcome, row) ==
    IF row # <<>> /\ row[ArgMax(row)] >= SIM_THRESHOLD
    THEN ArgMax(row)
    ELSE BestParticipantIdx(cs, ts, outcome)

\* faulty variant: the similarity choice stands however weak it is
AssignedThemeIdxBySimilarity(cs, ts, outcome, row) ==
    IF row = <<>> THEN 1 ELSE ArgMax(row)

\* the index of the theme the outcome is assigned to; row is its similarity
\* row, or <<>> when there is no vectorizer
AssignedThemeIdx(cs, ts, outcome, row) ==
    LET by_sim == IF row = <<>> THEN 1 ELSE ArgMax(row)
        best_score == IF row = <<>> THEN -100 ELSE row[by_sim]
        best_idx == BestParticipantIdx(cs, ts, outcome)
    IN  IF best_score < SIM_THRESHOLD
           /\ ParticipantMentions(cs, ts[best_idx], outcome) > 0
        THEN best_idx
        ELSE by_sim

RECURSIVE AttachFrom(_, _, _, _, _)
\* the loop over self.outcomes from index o on; returns <<themes, outcomes>>
AttachFrom(cs, ts, os, m, o) ==
    IF o > Len(os) THEN <<ts, os>>
    ELSE LET idx == AssignedThemeIdx(cs, ts, os[o], IF m = <<>> THEN <<>> ELSE m[o])
             ts2 == [ts EXCEPT ![idx].outcome_ids = Append(@, os[o].id),
                               ![idx].score2 = @ + OUTCOME_WEIGHT2]
             os2 == [os EXCEPT ![o].theme_id = ts[idx].id]
         IN  AttachFrom(cs, ts2, os2, m, o + 1)

\* what the similarities are computed from: the fitted texts, the themes'
\* aggregate texts and the outcome titles
AttachInput ==
    <<ClaimTexts(claims),
      [j \in 1..Len(themes) |-> themes[j].claim_indices],
      [o \in 1..Len(outcomes) |-> outcomes[o].title]>>

Attached(m) == AttachFrom(claims, themes, outcomes, m, 1)

AttachOutcomesToThemes ==
    /\ pc = "attach"
    /\ \E m \in IF vectorizer.state = "none" THEN {<<>>}
                ELSE SimilarityMatrices(claims, vectorizer.vocabulary, themes, outcomes) :
          /\ SameAsBefore(memo.sims, AttachInput, m)
          /\ sims' = m
          /\ memo' = IF builds = 1 THEN [memo EXCEPT !.sims = Remember(AttachInput, m)]
                     ELSE memo
          /\ themes' = IF themes = <<>> THEN themes ELSE Attached(m)[1]
          /\ outcomes' = IF themes = <<>> THEN outcomes ELSE Attached(m)[2]
    /\ pc' = "rebalance"
    /\ UNCHANGED <<inputs, claims, vectorizer, pre_themes, graph, first_graph,
                   fresh, builds>>

-----------------------------------------------------------------------------
(* Visibility rebalancer: _rebalance_theme_visibility *)

Populated(ts) ==
    LET kept == SelectSeq(ts, LAMBDA t : t.claim_indices # <<>> \/ t.outcome_ids # <<>>)
    IN  IF kept = <<>> THEN <<ts[1]>> ELSE kept

\* the length of list[:m] for a list of n elements (m may be negative)
SliceCut(n, m) == IF m >= 0 THEN Min2(m, n) ELSE Max2(n + m, 0)

KeepThemes(ts) == SubSeq(ts, 1, SliceCut(Len(ts), max_visible_themes))

OverflowThemes(ts) == SubSeq(ts, SliceCut(Len(ts), max_visible_themes) + 1, Len(ts))

RECURSIVE SumScore2(_)
SumScore2(ts) == IF ts = <<>> THEN 0 ELSE Head(ts).score2 + SumScore2(Tail(ts))

\* faulty variant: each overflow theme overwrites what the synthetic theme holds
MergedThemeLastOnly(overflow) ==
    [id |-> THEME_MORE,
     label |-> "More Topics",
     claim_indices |-> overflow[Len(overflow)].claim_indices,
     outcome_ids |-> overflow[Len(overflow)].outcome_ids,
     chapters |-> overflow[Len(overflow)].chapters,
     score2 |-> overflow[Len(overflow)].score2]

\* faulty variant: the synthetic theme takes the content but not the scores
MergedThemeUnscored(overflow) ==
    [id |-> THEME_MORE,
     label |-> "More Topics",
     claim_indices |-> Flatten([j \in 1..Len(overflow) |-> overflow[j].claim_indices]),
     outcome_ids |-> Flatten([j \in 1..Len(overflow) |-> overflow[j].outcome_ids]),
     chapters |-> UNION {overflow[j].chapters : j \in 1..Len(overflow)},
     score2 |-> 0]

\* the synthetic theme that takes the content of the overflow themes
MergedTheme(overflow) ==
    [id |-> THEME_MORE,
     label |-> "More Topics",
     claim_indices |-> Flatten([j \in 1..Len(overflow) |-> overflow[j].claim_indices]),
     outcome_ids |-> Flatten([j \in 1..Len(overflow) |-> overflow[j].outcome_ids]),
     chapters |-> UNION {overflow[j].chapters : j \in 1..Len(overflow)},
     score2 |-> SumScore2(overflow)]

\* faulty variant: the synthetic theme is appended without the overflow content
CappedThemesUnfilled(ts) ==
    IF Len(ts) > max_visible_themes
    THEN Append(KeepThemes(SortByScore(ts, <<>>)), MergedTheme(<<>>))
    ELSE ts

\* faulty variant: the synthetic theme is put in front of the kept themes
CappedThemesMoreFirst(ts) ==
    IF Len(ts) > max_visible_themes
    THEN LET sorted == SortByScore(ts, <<>>)
             keep == KeepThemes(sorted)
             overflow == OverflowThemes(sorted)
             merged == MergedTheme(overflow)
         IN  IF overflow # <<>>
                /\ (merged.claim_indices # <<>> \/ merged.outcome_ids # <<>>)
             THEN <<merged>> \o keep
             ELSE keep
    ELSE ts

\* self.themes after the cap, before the chapter sets are recomputed
CappedThemes(ts) ==
    IF Len(ts) > max_visible_themes
    THEN LET sorted == SortByScore(ts, <<>>)
             keep == KeepThemes(sorted)
             overflow == OverflowThemes(sorted)
             merged == MergedTheme(overflow)
         IN  IF overflow # <<>>
                /\ (merged.claim_indices # <<>> \/ merged.outcome_ids # <<>>)
             THEN Append(keep, merged)
             ELSE keep
    ELSE ts

\* folded claims and outcomes are re-pointed to the synthetic theme
FoldedClaimIdxs(ts) ==
    IF Len(ts) > max_visible_themes
    THEN Range(MergedTheme(OverflowThemes(SortByScore(ts, <<>>))).claim_indices)
    ELSE {}

FoldedOutcomeIds(ts) ==
    IF Len(ts) > max_visible_themes
    THEN Range(MergedTheme(OverflowThemes(SortByScore(ts, <<>>))).outcome_ids)
    ELSE {}

\* faulty variant: a fold re-points every claim and forgets its time hint
RepointedClaimsAll(cs, ts) ==
    [i \in 1..Len(cs) |->
        IF Len(ts) > max_visible_themes
        THEN [cs[i] EXCEPT !.theme_id = THEME_MORE, !.time_hint_ms = NO_TIME]
        ELSE cs[i]]

RepointedClaims(cs, ts) ==
    [i \in 1..Len(cs) |->
        IF i \in FoldedClaimIdxs(ts) THEN [cs[i] EXCEPT !.theme_id = THEME_MORE]
        ELSE cs[i]]

\* faulty variant: folded outcomes keep the id of the theme that was folded away
RepointedOutcomesNot(os, ts) == os

\* faulty variant: a fold re-points every outcome, those of kept themes too
RepointedOutcomesAll(os, ts) ==
    [o \in 1..Len(os) |->
        IF Len(ts) > max_visible_themes THEN [os[o] EXCEPT !.theme_id = THEME_MORE]
        ELSE os[o]]

RepointedOutcomes(os, ts) ==
    [o \in 1..Len(os) |->
        IF os[o].id \in FoldedOutcomeIds(ts) THEN [os[o] EXCEPT !.theme_id = THEME_MORE]
        ELSE os[o]]

\* faulty variant: every theme gets the chapters of all claims
RecomputeChaptersOfAll(cs, ts) ==
    [j \in 1..Len(ts) |->
        [ts[j] EXCEPT !.chapters = ChaptersOf(cs, [i \in 1..Len(cs) |-> i])]]

RecomputeChapters(cs, ts) ==
    [j \in 1..Len(ts) |-> [ts[j] EXCEPT !.chapters = ChaptersOf(cs, ts[j].claim_indices)]]

RebalancedThemes(cs, ts) == RecomputeChapters(cs, CappedThemes(Populated(ts)))

RebalanceThemeVisibility ==
    /\ pc = "rebalance"
    /\ pre_themes' = themes
    /\ IF themes = <<>>
       THEN UNCHANGED <<themes, claims, outcomes>>
       ELSE /\ themes' = RebalancedThemes(claims, themes)
            /\ claims' = RepointedClaims(claims, Populated(themes))
            /\ outcomes' = RepointedOutcomes(outcomes, Populated(themes))
    /\ pc' = "export"
    /\ UNCHANGED <<inputs, vectorizer, sims, memo, graph, first_graph, fresh, builds>>

-----------------------------------------------------------------------------
(* Graph exporter: _export_graph *)

SLUG_MAX == 32

LowerChar(ch) == IF ch = "C" THEN "c" ELSE ch

IsAlnum(ch) == ch \in {"c", "C", "1", "2"}

RECURSIVE DashRuns(_, _)
\* re.sub(r"[^a-zA-Z0-9]+", "-", text.lower()): in_run says a run was just replaced
DashRuns(text, in_run) ==
    IF text = <<>> THEN <<>>
    ELSE IF IsAlnum(Head(text))
         THEN <<LowerChar(Head(text))>> \o DashRuns(Tail(text), FALSE)
         ELSE IF in_run THEN DashRuns(Tail(text), TRUE)
              ELSE <<"-">> \o DashRuns(Tail(text), TRUE)

RECURSIVE StripLeft(_)
StripLeft(text) ==
    IF text # <<>> /\ Head(text) = "-" THEN StripLeft(Tail(text)) ELSE text

RECURSIVE StripRight(_)
StripRight(text) ==
    IF text # <<>> /\ text[Len(text)] = "-"
    THEN StripRight(SubSeq(text, 1, Len(text) - 1))
    ELSE text

Slugify(text, default) ==
    IF text = <<>> THEN default
    ELSE LET stripped == StripRight(StripLeft(DashRuns(text, FALSE)))
         IN  IF stripped = <<>> THEN default
             ELSE SubSeq(stripped, 1, Min2(SLUG_MAX, Len(stripped)))

RootId == <<"root", 0, <<>>>>
ThemeNodeId(theme_id) == <<"theme", theme_id, <<>>>>
ClaimNodeId(claim_id) == <<"claim", claim_id, <<>>>>
OutcomeNodeId(outcome_id) == <<"outcome", outcome_id, <<>>>>
ChapterNodeId(theme_id, chapter_id) ==
    <<"chapter", theme_id, Slugify(chapter_id, <<"chapter">>)>>

\* the names written in Outcome.description: title and owner
OutcomeMentions(outcome) == outcome.title.names \cup ({outcome.owner} \ {NoName})

\* the names written in _describe_claim: text and "Participants: ..."
ClaimMentions(claim) == claim.text.names \cup Range(claim.participants)

\* the names written in theme_summary: up to 3 claims, up to 2 outcomes
ThemeMentions(cs, os, theme) ==
    LET highlight_claims ==
            SubSeq(theme.claim_indices, 1, Min2(KEY_CLAIMS, Len(theme.claim_indices)))
        mine == SelectSeq(os, LAMBDA x : x.id \in Range(theme.outcome_ids))
        highlight_outcomes == SubSeq(mine, 1, Min2(KEY_OUTCOMES, Len(mine)))
    IN  UNION {cs[highlight_claims[j]].text.names : j \in 1..Len(highlight_claims)}
          \cup UNION {OutcomeMentions(highlight_outcomes[j]) :
                         j \in 1..Len(highlight_outcomes)}

\* the names written in the summary of the chapter with this chapter_id
ChapterMentions(chapter_id) ==
    UNION {sentences[i].text.names :
              i \in {x \in 1..Len(sentences) : sentences[x].chapter_id = chapter_id}}

Node(id, type, parent_id, label, mentions) ==
    [id |-> id, type |-> type, parent_id |-> parent_id, label |-> label,
     mentions |-> mentions]

RECURSIVE ClaimNodesNotSeen(_, _, _, _)
\* faulty variant: chapters_seen is not consulted: every claim of a chapter
\* gets a chapter node of its own
ClaimNodesNotSeen(cs, theme, j, seen) ==
    IF j > Len(theme.claim_indices) THEN <<>>
    ELSE LET claim == cs[theme.claim_indices[j]]
             chaptered == claim.chapter_id # NoChapter
             parent_id == IF chaptered
                          THEN ChapterNodeId(theme.id, claim.chapter_id)
                          ELSE ThemeNodeId(theme.id)
             chapter_node ==
                 IF chaptered
                 THEN <<Node(ChapterNodeId(theme.id, claim.chapter_id), "chapter",
                             ThemeNodeId(theme.id), "Chapter",
                             ChapterMentions(claim.chapter_id))>>
                 ELSE <<>>
             claim_node == Node(ClaimNodeId(claim.id), "claim", parent_id, "Claim",
                                ClaimMentions(claim))
         IN  chapter_node \o <<claim_node>> \o ClaimNodesNotSeen(cs, theme, j + 1, seen)

RECURSIVE ClaimNodes(_, _, _, _)
\* the loop over theme.claim_indices from position j on; seen is the set of
\* chapter ids of this theme already in chapters_seen
ClaimNodes(cs, theme, j, seen) ==
    IF j > Len(theme.claim_indices) THEN <<>>
    ELSE LET claim == cs[theme.claim_indices[j]]
             chaptered == claim.chapter_id # NoChapter
             parent_id == IF chaptered
                          THEN ChapterNodeId(theme.id, claim.chapter_id)
                          ELSE ThemeNodeId(theme.id)
             chapter_node ==
                 IF chaptered /\ claim.chapter_id \notin seen
                 THEN <<Node(ChapterNodeId(theme.id, claim.chapter_id), "chapter",
                             ThemeNodeId(theme.id), "Chapter",
                             ChapterMentions(claim.chapter_id))>>
                 ELSE <<>>
             claim_node == Node(ClaimNodeId(claim.id), "claim", parent_id, "Claim",
                                ClaimMentions(claim))
         IN  chapter_node \o <<claim_node>>
               \o ClaimNodes(cs, theme, j + 1,
                             IF chaptered THEN seen \cup {claim.chapter_id} ELSE seen)

\* faulty variant: every theme emits a node for every outcome
OutcomeNodesOfAll(os, theme) ==
    [j \in 1..Len(os) |->
        Node(OutcomeNodeId(os[j].id), os[j].type, ThemeNodeId(theme.id),
             "Outcome", OutcomeMentions(os[j]))]

OutcomeNodes(os, theme) ==
    LET mine == SelectSeq(os, LAMBDA x : x.theme_id = theme.id)
    IN  [j \in 1..Len(mine) |->
            Node(OutcomeNodeId(mine[j].id), mine[j].type, ThemeNodeId(theme.id),
                 "Outcome", OutcomeMentions(mine[j]))]

\* faulty variant: the theme's node is appended after the nodes under it
ThemeNodesLeavesFirst(cs, os, theme) ==
    ClaimNodes(cs, theme, 1, {})
      \o OutcomeNodes(os, theme)
      \o <<Node(ThemeNodeId(theme.id), "theme", RootId, theme.label,
               ThemeMentions(cs, os, theme))>>

ThemeNodes(cs, os, theme) ==
    <<Node(ThemeNodeId(theme.id), "theme", RootId, theme.label,
           ThemeMentions(cs, os, theme))>>
      \o ClaimNodes(cs, theme, 1, {})
      \o OutcomeNodes(os, theme)

ExportedNodes(cs, os, ts) == Flatten([j \in 1..Len(ts) |-> ThemeNodes(cs, os, ts[j])])

ExportGraph ==
    /\ pc = "export"
    /\ graph' = ExportedNodes(claims, outcomes, themes)
    /\ first_graph' = IF builds = 1 THEN graph' ELSE first_graph
    /\ pc' = "returned"
    /\ UNCHANGED <<inputs, claims, outcomes, themes, vectorizer, sims, memo,
                   pre_themes, fresh, builds>>

-----------------------------------------------------------------------------
(* Invocations *)

\* CoverageMindmapBuilder.__init__ followed by the call of build()
Init ==
    /\ participants \in Rosters
    /\ sentences \in SentenceInputs
    /\ collective_summary \in RawInputs
    /\ timeline_entries \in TimelineInputs
    /\ max_visible_themes \in ThemeCaps
    /\ claims = <<>>
    /\ outcomes = <<>>
    /\ themes = <<>>
    /\ vectorizer = NoVectorizer
    /\ sims = <<>>
    /\ memo = [labels |-> NothingRemembered, sims |-> NothingRemembered]
    /\ pre_themes = <<>>
    /\ graph = <<>>
    /\ first_graph = <<>>
    /\ fresh = TRUE
    /\ builds = 1
    /\ pc = "extract_claims"

Build ==
    \/ ExtractClaims
    \/ ExtractOutcomes
    \/ EnsureParticipationClaims
    \/ ClusterClaimsIntoThemes
    \/ AttachOutcomesToThemes
    \/ RebalanceThemeVisibility
    \/ ExportGraph

Next == Build

Spec == Init /\ [][Next]_vars

\* build() called once more on the builder that has just returned
BuildAgain ==
    /\ pc = "returned"
    /\ builds < MaxBuilds
    /\ builds' = builds + 1
    /\ fresh' = FALSE
    /\ pc' = "extract_claims"
    /\ UNCHANGED <<inputs, claims, outcomes, themes, vectorizer, sims, memo,
                   pre_themes, graph, first_graph>>

\* faulty variant: build_mindmap_async keeps one builder and calls its build() again
BuildMindmapAsyncCached ==
    /\ pc = "returned"
    /\ builds < MaxBuilds
    /\ builds' = builds + 1
    /\ fresh' = TRUE
    /\ pc' = "extract_claims"
    /\ UNCHANGED <<inputs, claims, outcomes, themes, vectorizer, sims, memo,
                   pre_themes, graph, first_graph>>

\* build_mindmap_async called once more with the same arguments: a new
\* CoverageMindmapBuilder, then its build()
BuildMindmapAsync ==
    /\ pc = "returned"
    /\ builds < MaxBuilds
    /\ builds' = builds + 1
    /\ fresh' = TRUE
    /\ claims' = <<>>
    /\ outcomes' = <<>>
    /\ themes' = <<>>
    /\ vectorizer' = NoVectorizer
    /\ pc' = "extract_claims"
    /\ UNCHANGED <<inputs, sims, memo, pre_themes, graph, first_graph>>

\* short meetings, nobody or everybody on the roster, and the tightest cap
\* only: repeated builds multiply the claims
InitRepeat ==
    /\ Init
    /\ Len(participants) # 1
    /\ participants # <<"Bob", "Ana">>
    /\ Len(sentences) <= 2
    /\ Len(collective_summary) <= 1
    /\ max_visible_themes = 1

NextRepeat == Build \/ BuildAgain \/ BuildMindmapAsync

SpecRepeat == InitRepeat /\ [][NextRepeat]_vars

\* sentences that name both participants, or one of them in a chapter
NamedSentencePool ==
    { [text |-> Text(9, {"roadmap"}, {"Ana", "Bob"}), chapter_id |-> NoChapter,
       source |-> "Executive Narrative"],
      [text |-> Text(6, {"hiring"}, {"Ana"}), chapter_id |-> <<"c", "-", "1">>,
       source |-> "Chapter"] }

\* no sentence at all, or two plain narrative sentences and a few named ones
NamedSentenceInputs ==
    {<<>>} \cup
    {<<PadSentence, PadSentence>> \o ss :
        ss \in {x \in UNION {[1..n -> NamedSentencePool] : n \in 0..MaxDetail} :
                   NarrativeFirst(x)}}

\* action items with and without a text, an achievement and a blocker
DetailRawPool ==
    {r \in RawPool : \/ r.kind = "action" /\ r.owner # NoName
                     \/ r.kind = "achievement" /\ r.evidence
                     \/ r.kind = "blocker"}

\* one record more than RawInputs allows
RawInputsInDetail ==
    {rs \in UNION {[1..n -> DetailRawPool] : n \in 0..(MaxRaw + 1)} :
        \A i, j \in 1..Len(rs) : i < j => KindRank(rs[i].kind) <= KindRank(rs[j].kind)}

\* short meetings in detail: sentences that name several participants, and
\* several raw records, under the tightest cap and under the loosest
InitDetail ==
    /\ participants \in Rosters
    /\ sentences \in NamedSentenceInputs
    /\ collective_summary \in RawInputsInDetail
    /\ timeline_entries \in TimelineInputs
    /\ max_visible_themes \in {1, MaxThemeCap}
    /\ claims = <<>>
    /\ outcomes = <<>>
    /\ themes = <<>>
    /\ vectorizer = NoVectorizer
    /\ sims = <<>>
    /\ memo = [labels |-> NothingRemembered, sims |-> NothingRemembered]
    /\ pre_themes = <<>>
    /\ graph = <<>>
    /\ first_graph = <<>>
    /\ fresh = TRUE
    /\ builds = 1
    /\ pc = "extract_claims"

SpecDetail == InitDetail /\ [][Next]_vars

\* max_visible_themes is an int parameter: zero and negative values included
AnyThemeCaps == (0 - MaxThemeCap - 1)..MaxThemeCap

\* short meetings under any cap
InitCaps ==
    /\ participants \in {<<>>, <<"Bob">>}
    /\ sentences \in NamedSentenceInputs
    /\ collective_summary \in RawInputs
    /\ timeline_entries \in TimelineInputs
    /\ max_visible_themes \in AnyThemeCaps
    /\ claims = <<>>
    /\ outcomes = <<>>
    /\ themes = <<>>
    /\ vectorizer = NoVectorizer
    /\ sims = <<>>
    /\ memo = [labels |-> NothingRemembered, sims |-> NothingRemembered]
    /\ pre_themes = <<>>
    /\ graph = <<>>
    /\ first_graph = <<>>
    /\ fresh = TRUE
    /\ builds = 1
    /\ pc = "extract_claims"

SpecCaps == InitCaps /\ [][Next]_vars

\* timeline entries with and without a timestamp, with and without speakers
TimelinePool ==
    { [timestamp_ms |-> 1000, tokens |-> {"roadmap"}, speakers |-> <<"ANA">>],
      [timestamp_ms |-> NO_TIME, tokens |-> {"hiring", "bob"}, speakers |-> <<"Bob">>],
      [timestamp_ms |-> 3000, tokens |-> {"hiring", "bob"}, speakers |-> <<>>],
      [timestamp_ms |-> 4000, tokens |-> {"hiring", "bob"}, speakers |-> <<>>] }

TimelineChoices == UNION {[1..n -> TimelinePool] : n \in 0..MaxEntries}

\* short meetings without outcomes, over any timeline
InitTime ==
    /\ participants \in {<<>>, <<"Ana", "Bob">>}
    /\ sentences \in DetailSeqs
    /\ collective_summary = <<>>
    /\ timeline_entries \in TimelineChoices
    /\ max_visible_themes = MaxThemeCap
    /\ claims = <<>>
    /\ outcomes = <<>>
    /\ themes = <<>>
    /\ vectorizer = NoVectorizer
    /\ sims = <<>>
    /\ memo = [labels |-> NothingRemembered, sims |-> NothingRemembered]
    /\ pre_themes = <<>>
    /\ graph = <<>>
    /\ first_graph = <<>>
    /\ fresh = TRUE
    /\ builds = 1
    /\ pc = "extract_claims"

SpecTime == InitTime /\ [][Next]_vars

-----------------------------------------------------------------------------
(* Properties *)

Returned == pc = "returned"
Rebalanced == pc \in {"export", "returned"}

ThemeCount(nodes) ==
    Cardinality({i \in 1..Len(nodes) : nodes[i].type = "theme" /\ nodes[i].parent_id = RootId})

Folded == \E j \in 1..Len(themes) : themes[j].id = THEME_MORE

\* C1: after build() the final theme list, and the exported theme nodes under
\* root, number at most max_visible_themes (the "More Topics" theme included).
C1_ThemeCap ==
    Returned => /\ Len(themes) <= max_visible_themes
                /\ ThemeCount(graph) <= max_visible_themes

\* C2: every roster participant is written in the label or description of at
\* least one node of the returned graph.
C2_Coverage ==
    Returned =>
        \A p \in Range(participants) : \E i \in 1..Len(graph) : p \in graph[i].mentions

\* C3: after build() every outcome has a theme_id, and it is the id of a theme
\* of the final theme list.
C3_OutcomeAttached ==
    Returned =>
        \A o \in 1..Len(outcomes) :
            /\ outcomes[o].theme_id # NO_THEME
            /\ \E j \in 1..Len(themes) : themes[j].id = outcomes[o].theme_id

\* an outcome of a folded theme, in a build with claims
C3_Witness ==
    /\ Returned
    /\ claims # <<>>
    /\ \E o \in 1..Len(outcomes) : outcomes[o].theme_id = THEME_MORE

RECURSIVE ClaimTotal(_)
ClaimTotal(ts) ==
    IF ts = <<>> THEN 0 ELSE Len(Head(ts).claim_indices) + ClaimTotal(Tail(ts))

RECURSIVE OutcomeTotal(_)
OutcomeTotal(ts) ==
    IF ts = <<>> THEN 0 ELSE Len(Head(ts).outcome_ids) + OutcomeTotal(Tail(ts))

\* how many times claim index i is listed by the themes ts
ClaimCopies(ts, i) ==
    Cardinality({<<j, k>> \in (1..Len(ts)) \X (1..Len(claims)) :
                    k <= Len(ts[j].claim_indices) /\ ts[j].claim_indices[k] = i})

OutcomeCopies(ts, id) ==
    Cardinality({<<j, k>> \in (1..Len(ts)) \X (1..Len(outcomes)) :
                    k <= Len(ts[j].outcome_ids) /\ ts[j].outcome_ids[k] = id})

\* C4: rebalancing keeps the content: the themes list as many claim indices
\* and outcome ids after it as before it, namely all of them, each once.
C4_NoContentLoss ==
    Rebalanced =>
        /\ ClaimTotal(themes) = ClaimTotal(pre_themes)
        /\ ClaimTotal(themes) = Len(claims)
        /\ OutcomeTotal(themes) = OutcomeTotal(pre_themes)
        /\ OutcomeTotal(themes) = Len(outcomes)
        /\ \A i \in 1..Len(claims) : ClaimCopies(themes, i) = 1
        /\ \A o \in 1..Len(outcomes) : OutcomeCopies(themes, outcomes[o].id) = 1

\* two themes with claims, one of them holding an outcome too, were folded
C4_Witness ==
    /\ pc = "export"
    /\ Folded
    /\ Len(pre_themes) >= Len(themes) + 1
    /\ \E j \in 1..Len(themes) :
          /\ themes[j].id = THEME_MORE
          /\ Len(themes[j].claim_indices) >= 2
          /\ themes[j].outcome_ids # <<>>

NonEmptyTheme(t) == t.claim_indices # <<>> \/ t.outcome_ids # <<>>

C7_NeverRaises == pc # "raised"

\* C8 (as claimed): every build() after the first, on a new builder or on the
\* same one, returns the graph the first build() returned.
C8_SameGraphEveryBuild == (Returned /\ builds > 1) => graph = first_graph

\* C8 (amended): a build() on a new builder, as build_mindmap_async makes one
\* per call, starts with no claim, outcome, theme or vectorizer and returns the
\* graph the first build() returned.
C8_SameGraphFreshBuilder ==
    /\ (pc = "extract_claims" /\ fresh) =>
           /\ claims = <<>>
           /\ outcomes = <<>>
           /\ themes = <<>>
           /\ vectorizer = NoVectorizer
    /\ (Returned /\ builds > 1 /\ fresh) => graph = first_graph

C8_Witness ==
    /\ Returned
    /\ builds > 1
    /\ fresh
    /\ Len(claims) >= 2
    /\ outcomes # <<>>

IsAttendance(claim) == claim.source = "Attendance"

\* the participants referenced by an extracted claim or by an outcome's people
C9_Union ==
    UNION {Range(claims[i].participants) :
              i \in {x \in 1..Len(claims) : ~IsAttendance(claims[x])}}
      \cup UNION {Range(outcomes[o].people) : o \in 1..Len(outcomes)}

C9_AttendanceOf(p) ==
    {i \in 1..Len(claims) : IsAttendance(claims[i]) /\ p \in Range(claims[i].participants)}

C10_ClusteringFloor ==
    (pc \in {"attach", "raised"} /\ Len(claims) \in 1..(CLUSTER_FLOOR - 1)) =>
        /\ Len(themes) = 1
        /\ Range(themes[1].claim_indices) = 1..Len(claims)

\* ps lists roster members only, each once, in the order of the roster
InRosterOrder(ps) == ps = SelectSeq(participants, LAMBDA p : p \in Range(ps))

\* C11: in every state the participants of every claim, extracted or
\* synthesized, are names of the roster, and an extracted claim lists them
\* in roster order.
C11_NoInventedNames ==
    \A i \in 1..Len(claims) :
        /\ Range(claims[i].participants) \subseteq Range(participants)
        /\ ~IsAttendance(claims[i]) => InRosterOrder(claims[i].participants)

\* a claim of a chapter-less sentence lists both participants of a roster that
\* has Bob before Ana, at the end of a build
C11_Witness ==
    /\ Returned
    /\ participants = <<"Bob", "Ana">>
    /\ \E i \in 1..Len(claims) :
          /\ claims[i].participants = <<"Bob", "Ana">>
          /\ claims[i].theme_id # NO_THEME

\* the raw records whose primary text is not empty after trimming
C12_Titled == SelectSeq(collective_summary, LAMBDA r : ~Blank(r.title))

\* C12: a raw record whose primary text is empty after trimming produces no
\* outcome and every other record produces exactly one, in order; so every
\* outcome of the outcome list has a non-empty title, in every state.
C12_OutcomeNormalization ==
    /\ \A o \in 1..Len(outcomes) : ~Blank(outcomes[o].title)
    /\ pc = "ensure_participation" =>
           /\ Len(outcomes) = Len(C12_Titled)
           /\ \A o \in 1..Len(outcomes) :
                 /\ outcomes[o].id = o
                 /\ outcomes[o].title = C12_Titled[o].title
                 /\ outcomes[o].type = C12_Titled[o].kind

\* a record without text is followed by a record with text
C12_Witness ==
    /\ pc = "ensure_participation"
    /\ Len(collective_summary) = 2
    /\ Blank(collective_summary[1].title)
    /\ Len(outcomes) = 1
    /\ outcomes[1].type = "achievement"

\* the attacher writes the theme_id of every outcome, and nothing else of it
C13_AttachedOnce ==
    (pc = "attach" /\ pc' = "rebalance") =>
        /\ Len(outcomes') = Len(outcomes)
        /\ \A o \in 1..Len(outcomes) :
              /\ outcomes[o].theme_id = NO_THEME
              /\ outcomes'[o].theme_id # NO_THEME
              /\ outcomes'[o] = [outcomes[o] EXCEPT !.theme_id = outcomes'[o].theme_id]

\* C13 (as claimed): during a build() the theme_id of each outcome is written
\* once, by the attacher, and no field of an outcome changes in any later
\* step, rebalancing and export included.
C13_OutcomeLifecycle ==
    [][/\ C13_AttachedOnce
       /\ pc \in {"rebalance", "export"} => outcomes' = outcomes]_vars

\* C13 (amended): the attacher writes the theme_id of each outcome once; after
\* it only rebalancing changes an outcome, and only the theme_id of an outcome
\* whose theme was folded away, which becomes "theme-more".
C13_OutcomeLifecycleButFolding ==
    [][/\ C13_AttachedOnce
       /\ pc = "export" => outcomes' = outcomes
       /\ pc = "rebalance" =>
              /\ Len(outcomes') = Len(outcomes)
              /\ \A o \in 1..Len(outcomes) :
                    outcomes'[o] =
                        IF \E j \in 1..Len(themes') : themes'[j].id = outcomes[o].theme_id
                        THEN outcomes[o]
                        ELSE [outcomes[o] EXCEPT !.theme_id = THEME_MORE]]_vars

\* after a fold one outcome is under "More Topics" and another under a kept theme
C13_Witness ==
    /\ pc = "export"
    /\ \E o \in 1..Len(outcomes) : outcomes[o].theme_id = THEME_MORE
    /\ \E o \in 1..Len(outcomes) : outcomes[o].theme_id \notin {THEME_MORE, NO_THEME}

\* the same theme but for its chapter set, which rebalancing recomputes
SameTheme(a, b) ==
    /\ a.id = b.id
    /\ a.label = b.label
    /\ a.claim_indices = b.claim_indices
    /\ a.outcome_ids = b.outcome_ids
    /\ a.score2 = b.score2

\* positions in the theme list of the themes that hold a claim or an outcome
C14_Populated == {j \in 1..Len(themes) : NonEmptyTheme(themes[j])}

\* what a rebalancing step that finds more populated themes than
\* max_visible_themes does: themes is the list before it, themes' after it
C14_FoldStep ==
    LET n == max_visible_themes
        more == themes'[Len(themes')]
        kept == {j \in C14_Populated : \E k \in 1..n : themes'[k].id = themes[j].id}
        folded == C14_Populated \ kept
        folded_claims == UNION {Range(themes[j].claim_indices) : j \in folded}
        folded_outcomes == UNION {Range(themes[j].outcome_ids) : j \in folded}
    IN  /\ Len(themes') = n + 1
        /\ Cardinality(kept) = n
        /\ \A k \in 1..n : \E j \in kept : SameTheme(themes[j], themes'[k])
        /\ \A j \in kept : \A f \in folded : themes[j].score2 >= themes[f].score2
        /\ more.id = THEME_MORE
        /\ more.label = "More Topics"
        /\ Range(more.claim_indices) = folded_claims
        /\ Len(more.claim_indices) = Cardinality(folded_claims)
        /\ Range(more.outcome_ids) = folded_outcomes
        /\ Len(more.outcome_ids) = Cardinality(folded_outcomes)
        /\ \A i \in 1..Len(claims) :
              claims'[i].theme_id =
                  IF i \in folded_claims THEN THEME_MORE ELSE claims[i].theme_id
        /\ \A o \in 1..Len(outcomes) :
              outcomes'[o].theme_id =
                  IF outcomes[o].id \in folded_outcomes THEN THEME_MORE
                  ELSE outcomes[o].theme_id

\* C14: when more populated themes remain than max_visible_themes, the kept
\* themes are max_visible_themes themes that score at least as much as every
\* folded theme; all others become one theme "theme-more" labelled "More
\* Topics" that lists exactly their claims and outcomes; folded claims and
\* outcomes point to it and kept ones point where they did.
C14_Folding ==
    [][(pc = "rebalance" /\ Cardinality(C14_Populated) > max_visible_themes)
           => C14_FoldStep]_vars

\* the theme that was listed first before the fold has been folded away:
\* outcomes made a later theme score more
C14_Witness ==
    /\ pc = "export"
    /\ Folded
    /\ Len(pre_themes) >= 2
    /\ \A j \in 1..Len(pre_themes) : NonEmptyTheme(pre_themes[j])
    /\ themes[1].id # pre_themes[1].id
    /\ claims[pre_themes[1].claim_indices[1]].theme_id = THEME_MORE

\* the attacher has run: themes and outcomes are as it left them
Attaching == pc = "rebalance"

\* the position in the theme list of the theme outcome o was attached to
AttachedIdx(o) == CHOOSE j \in 1..Len(themes) : themes[j].id = outcomes[o].theme_id

\* the best cosine similarity of outcome o over all themes, in hundredths
\* (-100 stands for the -1.0 of an outcome no similarity was computed for)
BestSimilarity(o) ==
    IF sims = <<>> THEN -100
    ELSE CHOOSE v \in Range(sims[o]) : \A x \in Range(sims[o]) : x <= v

\* sum over the claims of theme j of |outcome.people \cap claim.participants|
OverlapCount(j, o) == ParticipantMentions(claims, themes[j], outcomes[o])

SomeOverlap(o) == \E j \in 1..Len(themes) : OverlapCount(j, o) > 0

\* C15: an outcome whose best cosine similarity is below 0.12, when some
\* theme has a positive participant-overlap count, is attached to a theme
\* whose overlap count is the largest of all themes.
C15_OverlapFallback ==
    Attaching =>
        \A o \in 1..Len(outcomes) :
            (BestSimilarity(o) < SIM_THRESHOLD /\ SomeOverlap(o)) =>
                \A j \in 1..Len(themes) : OverlapCount(j, o) <= OverlapCount(AttachedIdx(o), o)

\* a weakly similar outcome went to the theme of its people, which is not the
\* theme its title is most similar to
C15_Witness ==
    /\ Attaching
    /\ sims # <<>>
    /\ \E o \in 1..Len(outcomes) :
          /\ BestSimilarity(o) < SIM_THRESHOLD
          /\ SomeOverlap(o)
          /\ AttachedIdx(o) # ArgMax(sims[o])
          /\ OverlapCount(ArgMax(sims[o]), o) = 0

\* C16: an outcome whose best cosine similarity is below 0.12, when no theme
\* has a positive participant-overlap count, is attached to the theme of the
\* largest similarity (the first theme when no similarity was computed); it
\* is not left without a theme.
C16_WeakSignalDefault ==
    Attaching =>
        \A o \in 1..Len(outcomes) :
            (BestSimilarity(o) < SIM_THRESHOLD /\ ~SomeOverlap(o)) =>
                /\ outcomes[o].theme_id # NO_THEME
                /\ \E j \in 1..Len(themes) : themes[j].id = outcomes[o].theme_id
                /\ AttachedIdx(o) = IF sims = <<>> THEN 1 ELSE ArgMax(sims[o])

\* an outcome with a weak but positive similarity to the second theme only,
\* and nobody of its people in any claim, is attached to the second theme
C16_Witness ==
    /\ Attaching
    /\ sims # <<>>
    /\ \E o \in 1..Len(outcomes) :
          /\ BestSimilarity(o) < SIM_THRESHOLD
          /\ BestSimilarity(o) > 0
          /\ ~SomeOverlap(o)
          /\ outcomes[o].theme_id # NO_THEME
          /\ AttachedIdx(o) > 1

\* C17: after clustering, after the outcome attachments and after rebalancing
\* every theme of the theme list has score = claims + 1.5 * outcomes (twice
\* the score is 2 * claims + 3 * outcomes), the "More Topics" theme included.
C17_ScoreAccounting ==
    \A j \in 1..Len(themes) :
        themes[j].score2 =
            2 * Len(themes[j].claim_indices) + OUTCOME_WEIGHT2 * Len(themes[j].outcome_ids)

\* after a fold both the kept theme and "More Topics" hold claims and outcomes
C17_Witness ==
    /\ pc = "export"
    /\ Folded
    /\ \A j \in 1..Len(themes) :
          /\ themes[j].claim_indices # <<>>
          /\ themes[j].outcome_ids # <<>>

\* C18: after _rebalance_theme_visibility the chapters set of every theme is
\* the set of the non-empty chapter_id values of the claims its claim_indices
\* list, for "More Topics" too and whether or not a fold happened.
C18_ChaptersRecomputed ==
    Rebalanced =>
        \A j \in 1..Len(themes) :
            themes[j].chapters =
                {claims[i].chapter_id : i \in Range(themes[j].claim_indices)} \ {NoChapter}

\* after a fold "More Topics" has a chapter and a kept theme with claims has none
C18_Witness ==
    /\ pc = "export"
    /\ \E j \in 1..Len(themes) : themes[j].id = THEME_MORE /\ themes[j].chapters # {}
    /\ \E j \in 1..Len(themes) :
          /\ themes[j].id # THEME_MORE
          /\ themes[j].claim_indices # <<>>
          /\ themes[j].chapters = {}

\* positions in the returned node list of the nodes with these properties
NodesOfType(type) == {i \in 1..Len(graph) : graph[i].type = type}

ChapterNodesUnder(theme_id) ==
    {i \in NodesOfType("chapter") : graph[i].parent_id = ThemeNodeId(theme_id)}

ClaimNodesOf(claim_id) ==
    {i \in NodesOfType("claim") : graph[i].id = ClaimNodeId(claim_id)}

\* the chapter ids of the claims theme t lists
ChapterIdsIn(t) ==
    {claims[i].chapter_id : i \in Range(t.claim_indices)} \ {NoChapter}

\* C19: in the exported node list a theme has one chapter node per chapter_id
\* of its claims, parented to the theme; every claim with a chapter_id has
\* the chapter node of its theme and chapter as parent_id, and every claim
\* without one has the theme.
C19_ChapterSubNodes ==
    Returned =>
        \A j \in 1..Len(themes) :
            LET t == themes[j]
            IN  /\ Cardinality(ChapterNodesUnder(t.id)) = Cardinality(ChapterIdsIn(t))
                /\ \A c \in ChapterIdsIn(t) :
                       \E n \in ChapterNodesUnder(t.id) :
                           /\ graph[n].id = ChapterNodeId(t.id, c)
                           /\ graph[n].mentions = ChapterMentions(c)
                /\ \A i \in Range(t.claim_indices) :
                       \A n \in ClaimNodesOf(claims[i].id) :
                           graph[n].parent_id =
                               IF claims[i].chapter_id # NoChapter
                               THEN ChapterNodeId(t.id, claims[i].chapter_id)
                               ELSE ThemeNodeId(t.id)

\* a theme lists two claims of one chapter and a claim of no chapter
C19_Witness ==
    /\ Returned
    /\ \E j \in 1..Len(themes) :
          /\ \E a, b \in Range(themes[j].claim_indices) :
                /\ a # b
                /\ claims[a].chapter_id # NoChapter
                /\ claims[a].chapter_id = claims[b].chapter_id
          /\ \E a \in Range(themes[j].claim_indices) : claims[a].chapter_id = NoChapter
          /\ Cardinality(ChapterNodesUnder(themes[j].id)) = 1

OutcomeNodesOf(outcome_id) ==
    {i \in 1..Len(graph) : graph[i].id = OutcomeNodeId(outcome_id)}

\* C20: every outcome is in the exported node list exactly once, as a node
\* parented to the theme node of its theme_id and not to a chapter node; every
\* claim is in it exactly once, as a node of type "claim".
C20_EachOnce ==
    Returned =>
        /\ \A o \in 1..Len(outcomes) :
              /\ Cardinality(OutcomeNodesOf(outcomes[o].id)) = 1
              /\ \A n \in OutcomeNodesOf(outcomes[o].id) :
                    /\ graph[n].type = outcomes[o].type
                    /\ graph[n].parent_id = ThemeNodeId(outcomes[o].theme_id)
                    /\ \E k \in NodesOfType("theme") : graph[k].id = graph[n].parent_id
        /\ \A i \in 1..Len(claims) :
              /\ Cardinality(ClaimNodesOf(claims[i].id)) = 1
              /\ Cardinality({n \in 1..Len(graph) : graph[n].id = ClaimNodeId(claims[i].id)}) = 1

\* two themes, each with an outcome; one of them has a chapter node as well
C20_Witness ==
    /\ Returned
    /\ Len(themes) >= 2
    /\ \A j \in 1..Len(themes) : themes[j].outcome_ids # <<>>
    /\ \E j \in 1..Len(themes) : ChapterNodesUnder(themes[j].id) # {}

\* C21: when there is no claim, extracted or filler, clustering leaves exactly
\* one theme, "theme-001" labelled "Key Topics" with no claim index, and
\* creates no vectorizer; every outcome is then attached to that theme.
C21_ZeroClaims ==
    (claims = <<>> /\ pc \in {"attach", "rebalance"}) =>
        /\ Len(themes) = 1
        /\ themes[1].id = 1
        /\ themes[1].label = "Key Topics"
        /\ themes[1].claim_indices = <<>>
        /\ vectorizer.state = "none"
        /\ pc = "rebalance" =>
               /\ \A o \in 1..Len(outcomes) : outcomes[o].theme_id = 1
               /\ themes[1].outcome_ids = [o \in 1..Len(outcomes) |-> outcomes[o].id]

\* a roster whose members are all named by the outcomes, no sentence, and two
\* outcomes attached to the default theme
C21_Witness ==
    /\ pc = "rebalance"
    /\ claims = <<>>
    /\ participants # <<>>
    /\ Len(outcomes) = 2
    /\ Len(themes[1].outcome_ids) = 2

\* the claims were vectorized and number at least 4: k-means is called
KMeansCalled ==
    /\ pc \in {"attach", "raised"}
    /\ Len(claims) >= CLUSTER_FLOOR
    /\ ~FitRaises(claims)

\* C22: for 4 claims or more the cluster count given to k-means is
\* min(max_visible_themes + 2, max(2, n_claims // 4)), lowered to the number
\* of TF-IDF features when that is smaller, and never below 1, whatever
\* integer max_visible_themes is; so k-means is never refused its cluster
\* count and clustering leaves at most max_visible_themes + 2 themes.
C22_ClusterCount ==
    KMeansCalled =>
        LET n_features == Cardinality(KeptFeatures(claims))
            k == Min2(max_visible_themes + EXTRA_CLUSTERS,
                      Max2(MIN_CLUSTERS, Len(claims) \div CLAIMS_PER_CLUSTER))
        IN  /\ ClusterCount(Len(claims), n_features) = Max2(1, Min2(k, n_features))
            /\ ClusterCount(Len(claims), n_features) >= 1
            /\ pc # "raised"
            /\ Len(themes) <= max_visible_themes + EXTRA_CLUSTERS

\* |claim_tokens \cap entry_tokens| + 2 * |detected_participants \cap entry_speakers|
HintScore(claim, entry) ==
    Cardinality(Tokenize(claim.text) \cap entry.tokens)
      + SPEAKER_WEIGHT
          * Cardinality({Lower(p) : p \in Range(claim.participants)}
                          \cap {Lower(s) : s \in Range(entry.speakers)})

\* the timestamp of the first of the entries at the positions idxs that
\* attains their largest score, if that score is 2 at least
HintAmong(claim, idxs) ==
    IF idxs = {} THEN NO_TIME
    ELSE LET best == CHOOSE e \in idxs :
                         /\ \A x \in idxs : HintScore(claim, timeline_entries[x])
                                                <= HintScore(claim, timeline_entries[e])
                         /\ \A x \in idxs : x < e =>
                                HintScore(claim, timeline_entries[x])
                                  < HintScore(claim, timeline_entries[e])
         IN  IF HintScore(claim, timeline_entries[best]) >= MIN_HINT_SCORE
             THEN timeline_entries[best].timestamp_ms
             ELSE NO_TIME

Timestamped == {e \in 1..Len(timeline_entries) : timeline_entries[e].timestamp_ms # NO_TIME}

\* C23 (as claimed): the time hint of an extracted claim is the timestamp of
\* the first timeline entry, in scan order, that attains the largest score of
\* all entries, if that score is 2 at least, and none otherwise.
C23_TimeHint ==
    \A i \in 1..Len(claims) :
        ~IsAttendance(claims[i]) =>
            claims[i].time_hint_ms = HintAmong(claims[i], 1..Len(timeline_entries))

\* C23 (amended): the same, with the largest score and the first entry taken
\* over the timeline entries that have a timestamp.
C23_TimeHintOfTimestamped ==
    \A i \in 1..Len(claims) :
        ~IsAttendance(claims[i]) =>
            claims[i].time_hint_ms = HintAmong(claims[i], Timestamped)

\* two entries with a timestamp tie for the best score of a claim, which
\* takes the timestamp of the first
C23_Witness ==
    /\ pc = "extract_outcomes"
    /\ Len(timeline_entries) = 2
    /\ timeline_entries[1].timestamp_ms # timeline_entries[2].timestamp_ms
    /\ \E i \in 1..Len(claims) :
          /\ HintScore(claims[i], timeline_entries[1]) >= MIN_HINT_SCORE
          /\ HintScore(claims[i], timeline_entries[2]) = HintScore(claims[i], timeline_entries[1])
          /\ Timestamped = {1, 2}
          /\ claims[i].time_hint_ms = timeline_entries[1].timestamp_ms

\* the claim but for its theme_id
ClaimContent(c) == [c EXCEPT !.theme_id = NO_THEME]

\* C24: a claim once appended is never removed or reordered; once clustering
\* has assigned its theme_id, the only change a later step makes to a claim is
\* theme_id = "theme-more" for the claims of folded themes; every other field
\* of every claim stays as it is through attachment, rebalancing and export.
C24_ClaimLifecycle ==
    [][/\ Len(claims') >= Len(claims)
       /\ \A i \in 1..Len(claims) : ClaimContent(claims'[i]) = ClaimContent(claims[i])
       /\ pc \in {"attach", "export"} => claims' = claims
       /\ pc = "rebalance" =>
              \A i \in 1..Len(claims) :
                  claims'[i].theme_id =
                      IF \E j \in 1..Len(themes') : themes'[j].id = claims[i].theme_id
                      THEN claims[i].theme_id
                      ELSE THEME_MORE]_vars

\* after a fold a claim with a time hint is under "More Topics" and another
\* claim is under a kept theme
C24_Witness ==
    /\ pc = "export"
    /\ \E i \in 1..Len(claims) :
          /\ claims[i].theme_id = THEME_MORE
          /\ claims[i].time_hint_ms # NO_TIME
    /\ \E i \in 1..Len(claims) : claims[i].theme_id \notin {THEME_MORE, NO_THEME}

\* clustering has run: the builder has a theme list
Clustered == pc \in {"attach", "rebalance", "export", "returned"}

\* C25: after clustering, after the outcome attachment and after rebalancing
\* the theme list is in non-increasing order of score: of two adjacent themes
\* the earlier scores at least as much as the later.
C25_OrderedByScore ==
    Clustered =>
        \A j \in 1..(Len(themes) - 1) : themes[j].score2 >= themes[j + 1].score2

\* the outcome attachment has run
OutcomesAttached == pc \in {"rebalance", "export", "returned"}

\* the indices of the themes whose claim_indices hold i
ThemesOfClaim(i) ==
    {j \in 1..Len(themes) : \E k \in 1..Len(themes[j].claim_indices) :
                                themes[j].claim_indices[k] = i}

\* the indices of the themes whose outcome_ids hold id
ThemesOfOutcome(id) ==
    {j \in 1..Len(themes) : \E k \in 1..Len(themes[j].outcome_ids) :
                                themes[j].outcome_ids[k] = id}

\* C26: at the end of clustering, of attachment and of rebalancing every claim
\* index is listed by exactly one theme of the theme list, the one whose id
\* the claim's theme_id names; at the end of attachment and of rebalancing
\* the same holds of every outcome id.
C26_PointerConsistency ==
    /\ Clustered =>
           \A i \in 1..Len(claims) :
               /\ Cardinality(ThemesOfClaim(i)) = 1
               /\ \A j \in 1..Len(themes) :
                      j \in ThemesOfClaim(i) <=> claims[i].theme_id = themes[j].id
    /\ OutcomesAttached =>
           \A o \in 1..Len(outcomes) :
               /\ Cardinality(ThemesOfOutcome(outcomes[o].id)) = 1
               /\ \A j \in 1..Len(themes) :
                      j \in ThemesOfOutcome(outcomes[o].id)
                          <=> outcomes[o].theme_id = themes[j].id

C26_Witness ==
    /\ pc = "export"
    /\ Len(themes) > 1
    /\ \E j \in 1..Len(themes) :
           /\ themes[j].id = THEME_MORE
           /\ Len(themes[j].claim_indices) > 1
           /\ themes[j].outcome_ids # <<>>
    /\ \E j \in 1..Len(themes) :
           /\ themes[j].id # THEME_MORE
           /\ themes[j].outcome_ids # <<>>

\* C27: in the returned graph no two entries of nodes have the same id,
\* chapter nodes of distinct chapter ids with one slug in one theme included.
C27_UniqueNodeIds ==
    Returned =>
        \A a, b \in 1..Len(graph) : graph[a].id = graph[b].id => a = b

\* the node at position a hangs under the theme node of theme_id, directly or
\* through a chapter node listed before it
UnderTheme(a, theme_id) ==
    \/ graph[a].parent_id = ThemeNodeId(theme_id)
    \/ \E b \in 1..(a - 1) :
           /\ graph[b].type = "chapter"
           /\ graph[b].id = graph[a].parent_id
           /\ graph[b].parent_id = ThemeNodeId(theme_id)

\* C28: in the returned graph every node's parent_id is the root's id or the
\* id of a node listed before it; a theme node hangs under the root, a chapter
\* node under a theme node, and a claim or outcome node under the theme node
\* of its own theme_id or under a chapter node of that theme.
C28_WellFormedTree ==
    Returned =>
        \A a \in 1..Len(graph) :
            /\ \/ graph[a].parent_id = RootId
               \/ \E b \in 1..(a - 1) : graph[b].id = graph[a].parent_id
            /\ graph[a].id[1] = "theme" => graph[a].parent_id = RootId
            /\ graph[a].id[1] = "chapter" =>
                   \E b \in 1..(a - 1) : /\ graph[b].type = "theme"
                                         /\ graph[b].id = graph[a].parent_id
            /\ graph[a].id[1] = "claim" =>
                   \E i \in 1..Len(claims) : /\ ClaimNodeId(claims[i].id) = graph[a].id
                                             /\ UnderTheme(a, claims[i].theme_id)
            /\ graph[a].id[1] = "outcome" =>
                   \E o \in 1..Len(outcomes) :
                       /\ OutcomeNodeId(outcomes[o].id) = graph[a].id
                       /\ UnderTheme(a, outcomes[o].theme_id)

C28_Witness ==
    /\ Returned
    /\ \E a, b, c \in 1..Len(graph) :
           /\ graph[a].id[1] = "claim" /\ graph[a].parent_id[1] = "chapter"
           /\ graph[b].id[1] = "claim" /\ graph[b].parent_id[1] = "theme"
           /\ graph[c].id[1] = "outcome"
    /\ Cardinality({a \in 1..Len(graph) : graph[a].type = "theme"}) > 1

\* how many of the themes handed to the rebalancer hold a claim or an outcome
PopulatedCount ==
    Cardinality({j \in 1..Len(pre_themes) :
                    pre_themes[j].claim_indices # <<>> \/ pre_themes[j].outcome_ids # <<>>})

\* C29: when the rebalancer is handed more populated themes than
\* max_visible_themes, the final theme list ends with "theme-more", which
\* holds a claim or an outcome and occurs nowhere else in the list; otherwise
\* the final theme list has no "theme-more".
C29_MoreTopics ==
    (Rebalanced /\ pre_themes # <<>>) =>
        IF PopulatedCount > max_visible_themes
        THEN /\ themes # <<>>
             /\ themes[Len(themes)].id = THEME_MORE
             /\ \/ themes[Len(themes)].claim_indices # <<>>
                \/ themes[Len(themes)].outcome_ids # <<>>
             /\ \A j \in 1..(Len(themes) - 1) : themes[j].id # THEME_MORE
        ELSE \A j \in 1..Len(themes) : themes[j].id # THEME_MORE

\* C29 for a meeting with content: when the rebalancer is handed at least one
\* populated theme and more populated themes than max_visible_themes, the
\* final theme list ends with a non-empty "theme-more" that occurs nowhere
\* else; otherwise the final theme list has no "theme-more".
C29_MoreTopicsOfPopulated ==
    (Rebalanced /\ pre_themes # <<>>) =>
        IF PopulatedCount > max_visible_themes /\ PopulatedCount > 0
        THEN /\ themes # <<>>
             /\ themes[Len(themes)].id = THEME_MORE
             /\ \/ themes[Len(themes)].claim_indices # <<>>
                \/ themes[Len(themes)].outcome_ids # <<>>
             /\ \A j \in 1..(Len(themes) - 1) : themes[j].id # THEME_MORE
        ELSE \A j \in 1..Len(themes) : themes[j].id # THEME_MORE

C29_Witness ==
    /\ pc = "export"
    /\ PopulatedCount > max_visible_themes
    /\ max_visible_themes > 0
    /\ Len(themes) = max_visible_themes + 1
    /\ themes[Len(themes)].id = THEME_MORE

\* the themes whose participant-overlap count with outcome o is the largest
\* of all themes
TiedThemes(o) ==
    {j \in 1..Len(themes) :
        \A x \in 1..Len(themes) : OverlapCount(x, o) <= OverlapCount(j, o)}

\* C30: an outcome whose best cosine similarity is below 0.12, when several
\* themes tie for the largest positive participant-overlap count, is attached
\* to the tied theme of the largest index in the theme list.
C30_FallbackTieBreak ==
    Attaching =>
        \A o \in 1..Len(outcomes) :
            (BestSimilarity(o) < SIM_THRESHOLD /\ SomeOverlap(o)) =>
                /\ AttachedIdx(o) \in TiedThemes(o)
                /\ \A j \in TiedThemes(o) : j <= AttachedIdx(o)

\* two themes tie on a positive overlap and the outcome went to the later one
C30_Witness ==
    /\ Attaching
    /\ \E o \in 1..Len(outcomes) :
          /\ BestSimilarity(o) < SIM_THRESHOLD
          /\ SomeOverlap(o)
          /\ Cardinality(TiedThemes(o)) > 1
          /\ AttachedIdx(o) > 1
====
